---- MODULE Spec2Model ----
(***************************************************************************)
(* The ZMPT101B sampling and RMS-estimation class of                       *)
(* micropython_scripts/w55rp20_networked_voltage_reader.py (the class body *)
(* of zmpt101b_voltage_monitor_rpi_pico.py is the same code), driven by    *)
(* the main loop of the networked reader, a scripted microsecond tick      *)
(* counter and a scripted ADC.                                             *)
(*                                                                         *)
(* Floats are fixed-point integers: an RMS code is held in units of        *)
(* 1/RMS_SCALE of an ADC code, a voltage in units of 1/(1000*RMS_SCALE)    *)
(* volt.                                                                   *)
(* math.sqrt is the integer square root of the scaled operand, and the     *)
(* float divisions are floor divisions done last, so that a product is     *)
(* exactly zero when a factor is, and negative when one factor is.         *)
(***************************************************************************)
EXTENDS Integers, Sequences, FiniteSets, TLC

\* ---------------------------------------------------------------- bounds
\* Raw samples are drawn from 0..MaxSample (a prefix of 0..ADC_SCALE).
MaxSample == 1
\* At most MaxCount samples are read in one window (caps a frozen clock).
MaxCount == 2
\* The tick counter advances 0..MaxStep tick units between two loop tests.
MaxStep == 2
\* One tick unit, in microseconds (half a 60 Hz cycle, truncated).
TickUnit == 8333
\* get_rms_voltage is called with loop_count in 1..MaxLoopCount.
MaxLoopCount == 2
\* Jumps of half the counter's range that one call may see.
MaxBigJumps == 1
\* Fixed-point resolution of an RMS code.
RMS_SCALE == 100

\* ------------------------------------------------------ program constants
\* self.ADC_SCALE
ADC_SCALE == 65535
\* self.VREF = 3.3, in millivolts
VREF_MILLI == 3300
\* time.ticks_us() counts modulo 2^30 (MicroPython's TICKS_PERIOD)
TICKS_PERIOD == 1073741824
TICKS_HALF == TICKS_PERIOD \div 2

\* frequency arguments of the constructor (50 Hz in both scripts, 60 Hz in
\* the docstring)
Frequencies == {50, 60}
\* values handed to set_sensitivity: 500 as in both scripts, 0, and a
\* negative one, which the setter stores like any other
Sensitivities == {-1, 0, 500}
Samples == 0..MaxSample
LoopCounts == 1..MaxLoopCount

\* Advances of the tick counter between two reads of it.
SmallSteps == {k * TickUnit : k \in 0..MaxStep}
LiveSteps == SmallSteps \ {0}
AllSteps == SmallSteps \cup {TICKS_HALF}
\* Counter values at which a reading starts: one tick unit before the wrap
\* (the first window wraps) and three before it (a later window does).
StartTicks == {TICKS_PERIOD - TickUnit, TICKS_PERIOD - 3 * TickUnit}

VARIABLES
    frequency,          \* the constructor's frequency argument
    period,             \* self.period
    sensitivity,        \* self.sensitivity
    clock,              \* the tick counter, as last read by time.ticks_us()
    frozen,             \* the counter does not advance during this call
    pc,                 \* where the main loop is
    caller,             \* who called get_zero_point: "main" or "rms"
    loop_count,         \* get_rms_voltage's argument
    cycle,              \* completed iterations of the for loop
    reading_voltage,    \* get_rms_voltage's reading_voltage
    zero_point,         \* get_rms_voltage's zero_point
    Vsum,               \* Vsum of the window being run
    measurements_count, \* measurements_count of the window being run
    t_start,            \* t_start of the window being run
    zp_result,          \* the value get_zero_point returned
    result,             \* the value get_rms_voltage returned
    sent,               \* the values forwarded to send_voltage_data
    \* history variables, read by the properties only
    log,                \* the samples read in the window being run
    probe,              \* true elapsed time of the window being run
    jumps,              \* jumps of half the range since the call started
    windows,            \* windows ended since the call started
    refTotal,           \* reference voltages of the completed cycles
    sens0,              \* the sensitivity when the call started
    sensAllZero         \* sensitivity was 0 all along since the call started

vars == <<frequency, period, sensitivity, clock, frozen, pc, caller,
          loop_count, cycle, reading_voltage, zero_point, Vsum,
          measurements_count, t_start, zp_result, result, sent, log, probe,
          jumps, windows, refTotal, sens0, sensAllZero>>

\* ---------------------------------------------------------- pure helpers
RECURSIVE ISqrtBetween(_, _, _)
\* the r in lo..hi-1 with r*r <= x < (r+1)*(r+1), by bisection
ISqrtBetween(x, lo, hi) ==
    IF hi - lo <= 1 THEN lo
    ELSE LET mid == (lo + hi) \div 2
         IN IF mid * mid <= x THEN ISqrtBetween(x, mid, hi)
                              ELSE ISqrtBetween(x, lo, mid)

\* math.sqrt on a fixed-point operand: the floor of the square root
ISqrt(x) == ISqrtBetween(x, 0, 46341)

\* a digit dropped: a tenth of the period
Period_Short(hz) == 100000 \div hz

\* self.period = 1000000 // frequency
Period(hz) == 1000000 \div hz

\* time.ticks_us() after d more microseconds: the counter wraps
TicksAfter(c, d) == (c + d) % TICKS_PERIOD

\* plain subtraction of two counter readings
ticks_diff_Plain(a, b) == a - b

\* time.ticks_diff(a, b): the signed difference modulo TICKS_PERIOD, in
\* -TICKS_HALF .. TICKS_HALF - 1
ticks_diff(a, b) == ((a - b + TICKS_HALF) % TICKS_PERIOD) - TICKS_HALF

\* the arguments of ticks_diff swapped
InWindow_Swapped(now, t0, p) == ticks_diff(t0, now) < p

\* the loop test of both windows
InWindow(now, t0, p) == ticks_diff(now, t0) < p

\* a sentinel instead of 0 for an empty window
ZeroPointReturn_Sentinel(vsum, n) == IF n = 0 THEN -1 ELSE vsum \div n

\* the mean rounded up
ZeroPointReturn_Ceil(vsum, n) == IF n = 0 THEN 0 ELSE (vsum + n - 1) \div n

\* get_zero_point's return statements
ZeroPointReturn(vsum, n) == IF n = 0 THEN 0 ELSE vsum \div n

\* the zero point not removed
SquareAcc_NoOffset(vsum, sample, zp) == vsum + sample * sample

\* Vnow = read_u16() - zero_point; Vsum += Vnow * Vnow
SquareAcc(vsum, sample, zp) == vsum + (sample - zp) * (sample - zp)

\* rms = math.sqrt(Vsum / measurements_count)
Rms(vsum, n) == ISqrt((vsum * RMS_SCALE * RMS_SCALE) \div n)

\* the sensitivity added instead of multiplied
Voltage_Added(rms, sens) == (rms * VREF_MILLI) \div ADC_SCALE + sens

\* voltage = (rms / self.ADC_SCALE) * self.VREF * self.sensitivity
Voltage(rms, sens) == (rms * VREF_MILLI * sens) \div ADC_SCALE

\* the mean of the cycles so far instead of 0.0
DegradedReturn_Partial(reading, n) == reading \div n

\* return 0.0 when a measurement window read nothing
DegradedReturn(reading, n) == 0

\* return reading_voltage / loop_count
FinalReturn(reading, n) == reading \div n

\* ------------------------------------------- the closed form, from the log
RECURSIVE RefSum(_)
RefSum(seq) == IF seq = <<>> THEN 0 ELSE Head(seq) + RefSum(Tail(seq))

RECURSIVE RefSumSq(_, _)
RefSumSq(seq, z) ==
    IF seq = <<>> THEN 0
    ELSE (Head(seq) - z) * (Head(seq) - z) + RefSumSq(Tail(seq), z)

RefMin(seq) == CHOOSE x \in {seq[k] : k \in 1..Len(seq)} :
                   \A k \in 1..Len(seq) : x <= seq[k]
RefMax(seq) == CHOOSE x \in {seq[k] : k \in 1..Len(seq)} :
                   \A k \in 1..Len(seq) : x >= seq[k]

\* sqrt(Vsum_k / n_k) / ADC_SCALE * VREF * sensitivity of one cycle, from the
\* samples read in its measurement window and its zero point z
RefVoltage(seq, z, sens) ==
    (ISqrt((RefSumSq(seq, z) * RMS_SCALE * RMS_SCALE) \div Len(seq))
        * VREF_MILLI * sens) \div ADC_SCALE

\* ------------------------------------------------------------- the state
NoProbe == [elapsed |-> 0, wrapped |-> FALSE, first |-> -1]

Init ==
    /\ frequency \in Frequencies
    /\ period = Period(frequency)
    /\ sensitivity = 1
    /\ clock \in StartTicks
    /\ frozen = FALSE
    /\ pc = "idle"
    /\ caller = "main"
    /\ loop_count = 1
    /\ cycle = 0
    /\ reading_voltage = 0
    /\ zero_point = 0
    /\ Vsum = 0
    /\ measurements_count = 0
    /\ t_start = 0
    /\ zp_result = 0
    /\ result = 0
    /\ sent = <<>>
    /\ log = <<>>
    /\ probe = NoProbe
    /\ jumps = 0
    /\ windows = 0
    /\ refTotal = 0
    /\ sens0 = 1
    /\ sensAllZero = FALSE

\* The history of one more loop test, d microseconds after the last read.
Probed(d) ==
    [elapsed |-> probe.elapsed + d,
     wrapped |-> probe.wrapped \/ clock + d >= TICKS_PERIOD,
     first   |-> IF probe.first < 0 THEN probe.elapsed + d ELSE probe.first]

Jumped(d) == jumps + (IF d = TICKS_HALF THEN 1 ELSE 0)

\* A running counter advances between two reads of it; a frozen one never
\* does.
StepAllowed(d) ==
    /\ frozen <=> d = 0
    /\ d = TICKS_HALF => jumps < MaxBigJumps

\* The samples read, as a multiset: in ascending order.
RECURSIVE Logged(_, _)
Logged(seq, s) ==
    IF seq = <<>> THEN <<s>>
    ELSE IF s <= Head(seq) THEN <<s>> \o seq
    ELSE <<Head(seq)>> \o Logged(Tail(seq), s)

\* ------------------------------------------------------------ operations
\* set_sensitivity(value)
SetSensitivity(v) ==
    /\ sensitivity' = v
    /\ sensAllZero' = (sensAllZero /\ v = 0)
    /\ UNCHANGED <<frequency, period, clock, frozen, pc, caller, loop_count,
                   cycle, reading_voltage, zero_point, Vsum,
                   measurements_count, t_start, zp_result, result, sent, log,
                   probe, jumps, windows, refTotal, sens0>>

\* get_zero_point() called on its own: Vsum = 0, measurements_count = 0,
\* t_start = time.ticks_us()
CallZeroPoint(f) ==
    /\ pc = "idle"
    /\ frozen' = f
    /\ pc' = "zp"
    /\ caller' = "main"
    /\ Vsum' = 0
    /\ measurements_count' = 0
    /\ t_start' = clock
    /\ log' = <<>>
    /\ probe' = NoProbe
    /\ jumps' = 0
    /\ windows' = 0
    /\ sens0' = sensitivity
    /\ sensAllZero' = (sensitivity = 0)
    /\ UNCHANGED <<frequency, period, sensitivity, clock, loop_count, cycle,
                   reading_voltage, zero_point, zp_result, result, sent,
                   refTotal>>

\* get_rms_voltage(n): reading_voltage = 0.0, then the first iteration of
\* the for loop enters get_zero_point
CallRms(n, f) ==
    /\ pc = "idle"
    /\ frozen' = f
    /\ pc' = "zp"
    /\ caller' = "rms"
    /\ loop_count' = n
    /\ cycle' = 0
    /\ reading_voltage' = 0
    /\ Vsum' = 0
    /\ measurements_count' = 0
    /\ t_start' = clock
    /\ log' = <<>>
    /\ probe' = NoProbe
    /\ jumps' = 0
    /\ windows' = 0
    /\ refTotal' = 0
    /\ sens0' = sensitivity
    /\ sensAllZero' = (sensitivity = 0)
    /\ UNCHANGED <<frequency, period, sensitivity, clock, zero_point,
                   zp_result, result, sent>>

\* get_zero_point's loop: the test holds, one sample is added
ZpSample(d, s) ==
    /\ pc = "zp"
    /\ StepAllowed(d)
    /\ measurements_count < MaxCount
    /\ InWindow(TicksAfter(clock, d), t_start, period)
    /\ clock' = TicksAfter(clock, d)
    /\ Vsum' = Vsum + s
    /\ measurements_count' = measurements_count + 1
    /\ log' = Logged(log, s)
    /\ probe' = Probed(d)
    /\ jumps' = Jumped(d)
    /\ UNCHANGED <<frequency, period, sensitivity, frozen, pc, caller,
                   loop_count, cycle, reading_voltage, zero_point, t_start,
                   zp_result, result, sent, windows, refTotal, sens0,
                   sensAllZero>>

\* get_zero_point's loop ends and the function returns
ZpExit(d) ==
    /\ pc = "zp"
    /\ StepAllowed(d)
    /\ ~InWindow(TicksAfter(clock, d), t_start, period)
    /\ clock' = TicksAfter(clock, d)
    /\ zp_result' = ZeroPointReturn(Vsum, measurements_count)
    /\ pc' = "zp_ret"
    /\ probe' = Probed(d)
    /\ jumps' = Jumped(d)
    /\ windows' = windows + 1
    /\ UNCHANGED <<frequency, period, sensitivity, frozen, caller, loop_count,
                   cycle, reading_voltage, zero_point, Vsum,
                   measurements_count, t_start, result, sent, log, refTotal,
                   sens0, sensAllZero>>

\* back in get_rms_voltage: zero_point = the returned value, Vsum = 0,
\* measurements_count = 0, t_start = time.ticks_us()
MsStart ==
    /\ pc = "zp_ret"
    /\ caller = "rms"
    /\ zero_point' = zp_result
    /\ Vsum' = 0
    /\ measurements_count' = 0
    /\ t_start' = clock
    /\ pc' = "ms"
    /\ log' = <<>>
    /\ probe' = NoProbe
    /\ UNCHANGED <<frequency, period, sensitivity, clock, frozen, caller,
                   loop_count, cycle, reading_voltage, zp_result, result, sent,
                   jumps, windows, refTotal, sens0, sensAllZero>>

\* the measurement loop: the test holds, one squared deviation is added
MsSample(d, s) ==
    /\ pc = "ms"
    /\ StepAllowed(d)
    /\ measurements_count < MaxCount
    /\ InWindow(TicksAfter(clock, d), t_start, period)
    /\ clock' = TicksAfter(clock, d)
    /\ Vsum' = SquareAcc(Vsum, s, zero_point)
    /\ measurements_count' = measurements_count + 1
    /\ log' = Logged(log, s)
    /\ probe' = Probed(d)
    /\ jumps' = Jumped(d)
    /\ UNCHANGED <<frequency, period, sensitivity, frozen, pc, caller,
                   loop_count, cycle, reading_voltage, zero_point, t_start,
                   zp_result, result, sent, windows, refTotal, sens0,
                   sensAllZero>>

\* the measurement loop ends
MsExit(d) ==
    /\ pc = "ms"
    /\ StepAllowed(d)
    /\ ~InWindow(TicksAfter(clock, d), t_start, period)
    /\ clock' = TicksAfter(clock, d)
    /\ pc' = "ms_end"
    /\ probe' = Probed(d)
    /\ jumps' = Jumped(d)
    /\ windows' = windows + 1
    /\ UNCHANGED <<frequency, period, sensitivity, frozen, caller, loop_count,
                   cycle, reading_voltage, zero_point, Vsum,
                   measurements_count, t_start, zp_result, result, sent, log,
                   refTotal, sens0, sensAllZero>>

\* after the measurement loop: return 0.0 on an empty window, else add the
\* cycle's voltage and go round the for loop, or return the mean
CycleEnd ==
    /\ pc = "ms_end"
    /\ IF measurements_count = 0
       THEN /\ result' = DegradedReturn(reading_voltage, loop_count)
            /\ pc' = "returned"
            /\ UNCHANGED <<reading_voltage, cycle, refTotal, Vsum,
                           measurements_count, t_start, log, probe, caller>>
       ELSE /\ reading_voltage' = reading_voltage
                    + Voltage(Rms(Vsum, measurements_count), sensitivity)
            /\ cycle' = cycle + 1
            /\ refTotal' = refTotal + RefVoltage(log, zp_result, sensitivity)
            /\ IF cycle + 1 < loop_count
               THEN /\ pc' = "zp"
                    /\ caller' = "rms"
                    /\ Vsum' = 0
                    /\ measurements_count' = 0
                    /\ t_start' = clock
                    /\ log' = <<>>
                    /\ probe' = NoProbe
                    /\ UNCHANGED result
               ELSE /\ pc' = "returned"
                    /\ result' = FinalReturn(reading_voltage', loop_count)
                    /\ UNCHANGED <<Vsum, measurements_count, t_start, log,
                                   probe, caller>>
    /\ UNCHANGED <<frequency, period, sensitivity, clock, frozen, loop_count,
                   zero_point, zp_result, sent, jumps, windows, sens0,
                   sensAllZero>>

\* main: print the reading and hand it to send_voltage_data
Send ==
    /\ pc = "returned"
    /\ sent' = Append(sent, result)
    /\ pc' = "sent"
    /\ UNCHANGED <<frequency, period, sensitivity, clock, frozen, caller,
                   loop_count, cycle, reading_voltage, zero_point, Vsum,
                   measurements_count, t_start, zp_result, result, log, probe,
                   jumps, windows, refTotal, sens0, sensAllZero>>

\* main: time.sleep between two readings; the locals of the call are gone
Sleep ==
    /\ pc = "sent" \/ (pc = "zp_ret" /\ caller = "main")
    /\ pc' = "idle"
    /\ clock' \in StartTicks
    /\ frozen' = FALSE
    /\ caller' = "main"
    /\ loop_count' = 1
    /\ cycle' = 0
    /\ reading_voltage' = 0
    /\ zero_point' = 0
    /\ Vsum' = 0
    /\ measurements_count' = 0
    /\ t_start' = 0
    /\ zp_result' = 0
    /\ result' = 0
    /\ sent' = <<>>
    /\ log' = <<>>
    /\ probe' = NoProbe
    /\ jumps' = 0
    /\ windows' = 0
    /\ refTotal' = 0
    /\ sens0' = sensitivity
    /\ sensAllZero' = FALSE
    /\ UNCHANGED <<frequency, period, sensitivity>>

\* The steps of one call, the counter advancing by a member of D between
\* two loop tests.
Measure(D) ==
    \/ \E d \in D, s \in Samples : ZpSample(d, s)
    \/ \E d \in D : ZpExit(d)
    \/ MsStart
    \/ \E d \in D, s \in Samples : MsSample(d, s)
    \/ \E d \in D : MsExit(d)
    \/ CycleEnd

\* The main loop, the counter of each call frozen or running as F allows.
Caller(F) ==
    \/ \E f \in F : CallZeroPoint(f)
    \/ \E n \in LoopCounts, f \in F : CallRms(n, f)
    \/ Send
    \/ Sleep

\* The calibration step, serialized with the readings: between two calls.
Calibrate == \E v \in Sensitivities : pc = "idle" /\ SetSensitivity(v)

\* The calibration step run from another execution context during a call.
\* The call reads self.sensitivity in one place, after a measurement loop,
\* so a write made anywhere in a cycle is seen as one made there.
CalibrateInFlight == \E v \in Sensitivities : pc = "ms_end" /\ SetSensitivity(v)

\* Any scripted clock; calibration between the calls.
Next == Measure(AllSteps) \/ Caller(BOOLEAN) \/ Calibrate

Spec == Init /\ [][Next]_vars

\* The counter advances by at least one tick unit, and by less than half
\* its range, between two loop tests, and a call that can take a step does.
NextLive == Measure(LiveSteps) \/ Caller({FALSE}) \/ Calibrate

LiveSpec == Init /\ [][NextLive]_vars /\ WF_vars(Measure(LiveSteps))

\* The same clock, and calibration at any time.
NextCal == NextLive \/ CalibrateInFlight

CalSpec == Init /\ [][NextCal]_vars

\* ------------------------------------------------------------ properties
\* a window's loop is running, or has just ended
InLoop == pc \in {"zp", "ms"}
Ended == pc \in {"zp_ret", "ms_end"}
\* get_rms_voltage has returned; the locals of its last window still stand
RmsReturned == pc \in {"returned", "sent"}
\* the elapsed time the last loop test computed
LastDiff == ticks_diff(clock, t_start)

\* C1: get_rms_voltage returns the mean, over its loop_count cycles, of the
\* closed form sqrt(Vsum_k / n_k) / ADC_SCALE * VREF * sensitivity, Vsum_k
\* summing (sample - zero_point_k)^2 over the n_k samples the cycle's
\* measurement window read and zero_point_k being what get_zero_point
\* returned in that same cycle; with loop_count = 1 it is the closed form.
C1_RmsIsMeanOfClosedForms ==
    /\ pc \in {"ms", "ms_end"} =>
          /\ measurements_count = Len(log)
          /\ Vsum = RefSumSq(log, zp_result)
    /\ (RmsReturned /\ measurements_count > 0) =>
          /\ cycle = loop_count
          /\ result = refTotal \div loop_count
          /\ loop_count = 1 =>
                result = RefVoltage(log, zp_result, sensitivity)

\* a call of two cycles whose cycles measured different voltages, the last
\* about a zero point that is not 0
C1_Witness ==
    /\ pc = "returned"
    /\ loop_count = 2
    /\ measurements_count > 0
    /\ zp_result > 0
    /\ result > 0
    /\ refTotal # 2 * RefVoltage(log, zp_result, sensitivity)

\* C2 as stated: once the counter has wrapped in a window, every loop test
\* computes the true elapsed time and the window ends with a sample read.
C2_WrapAlwaysNormal ==
    (probe.wrapped /\ (InLoop \/ Ended)) =>
        /\ LastDiff = probe.elapsed
        /\ Ended => measurements_count > 0

\* C2, amended: once the counter has wrapped in a window, and while less
\* than half its range has truly elapsed since t_start, every loop test
\* computes the true elapsed time; the loop runs while that is below the
\* period and ends at the first test where it is not; and the window has
\* read a sample exactly when less than a period had elapsed at its first
\* loop test.
C2_WrapSafeElapsed ==
    (probe.wrapped /\ probe.elapsed < TICKS_HALF /\ (InLoop \/ Ended)) =>
        /\ LastDiff = probe.elapsed
        /\ InLoop => probe.elapsed < period
        /\ Ended => probe.elapsed >= period
        /\ Ended => (measurements_count > 0 <=> probe.first < period)

\* a measurement window of get_rms_voltage in which the counter wrapped has
\* ended with samples read
C2_Witness ==
    /\ pc = "ms_end"
    /\ probe.wrapped
    /\ probe.elapsed < TICKS_HALF
    /\ t_start > clock
    /\ measurements_count > 0

\* C3: when the measurement window of a cycle, the first or a later one,
\* reads no sample, get_rms_voltage returns 0.0 there: what the earlier
\* cycles added is dropped, and no further window or cycle is run.
C3_EmptyWindowReturnsZero ==
    (RmsReturned /\ measurements_count = 0) =>
        /\ result = 0
        /\ log = <<>>
        /\ cycle < loop_count
        /\ windows = 2 * (cycle + 1)

\* the second cycle's measurement window reads nothing after a first cycle
\* that added a voltage
C3_Witness ==
    /\ pc = "returned"
    /\ measurements_count = 0
    /\ cycle = 1
    /\ reading_voltage > 0

\* C4 as stated: a counter that never advances yields a window without
\* samples (and get_zero_point returns 0).
C4_FrozenClockReadsNothing ==
    /\ (pc = "zp" /\ frozen) => measurements_count = 0
    /\ (pc = "zp_ret" /\ measurements_count = 0) => zp_result = 0

\* C4, amended: get_zero_point reads no sample exactly when its window had
\* expired at the first loop test, and then returns 0; inside
\* get_rms_voltage the cycle goes on to its measurement window with
\* zero_point = 0. With a counter that never advances the first window
\* never ends.
C4_ExpiredWindowReturnsZero ==
    /\ [](pc = "zp_ret" =>
            /\ measurements_count = 0 <=> probe.elapsed = probe.first
            /\ measurements_count = 0 => zp_result = 0)
    /\ [](frozen => pc = "zp")
    /\ [][(pc = "zp_ret" /\ caller = "rms" /\ measurements_count = 0)
            => (pc' = "ms" /\ zero_point' = 0)]_vars

\* get_zero_point returned from a window that read nothing, inside
\* get_rms_voltage
C4_Witness ==
    /\ pc = "zp_ret"
    /\ caller = "rms"
    /\ measurements_count = 0
    /\ probe.first >= period

\* C5: a set_sensitivity that runs during a get_rms_voltage call, after its
\* first cycle, leaves the call alone: every later cycle still adds its RMS
\* scaled by the sensitivity that held when the call started.
C5_InFlightCallUnaffected ==
    [][(pc = "ms_end" /\ pc' # "ms_end" /\ cycle > 0
            /\ measurements_count > 0) =>
          reading_voltage' = reading_voltage
              + Voltage(Rms(Vsum, measurements_count), sens0)]_vars

\* C6 as stated: get_zero_point returns after a full period, and
\* get_rms_voltage after loop_count zero-point windows and loop_count
\* measurement windows.
C6_AlwaysFullMultiCycle ==
    /\ Ended => probe.elapsed >= 1000000 \div frequency
    /\ RmsReturned => windows = 2 * loop_count

\* C6, amended: every window a call runs lasts a full period
\* (1000000 // frequency microseconds) or more; a get_rms_voltage call that
\* returns a reading has run all its 2 * loop_count windows, and one that
\* returns 0.0 from cycle k's empty measurement window has run 2 * k.
C6_EveryWindowFullPeriod ==
    /\ (Ended \/ RmsReturned) => probe.elapsed >= 1000000 \div frequency
    /\ (RmsReturned /\ measurements_count > 0) => windows = 2 * loop_count
    /\ (RmsReturned /\ measurements_count = 0) => windows = 2 * (cycle + 1)

\* a call of two cycles returned 0.0 from its first cycle
C6_Witness ==
    /\ pc = "returned"
    /\ loop_count = 2
    /\ measurements_count = 0
    /\ windows = 2

C8_ZeroSensitivityZeroReading ==
    (RmsReturned /\ sensAllZero) => result = 0

\* a call returned from a last cycle that measured a non-zero RMS, the
\* sensitivity being 0 throughout
C8_Witness ==
    /\ pc = "returned"
    /\ sensAllZero
    /\ measurements_count > 0
    /\ Rms(Vsum, measurements_count) > 0

\* C9: a get_zero_point that read samples returns the floor of their sum
\* over their number, the samples being those read while the loop test held
\* and up to the first test that did not; so it lies between the smallest
\* and the largest of them, and is c when they all are c.
C9_ZeroPointIsFloorMean ==
    /\ (pc = "zp" /\ measurements_count > 0) => LastDiff < period
    /\ pc \in {"zp", "zp_ret"} =>
          /\ measurements_count = Len(log)
          /\ Vsum = RefSum(log)
    /\ (pc = "zp_ret" /\ measurements_count > 0) =>
          /\ LastDiff >= period
          /\ zp_result * Len(log) <= RefSum(log)
          /\ RefSum(log) < (zp_result + 1) * Len(log)
          /\ RefMin(log) <= zp_result
          /\ zp_result <= RefMax(log)
          /\ RefMin(log) = RefMax(log) => zp_result = RefMin(log)

\* get_zero_point returned from samples whose mean is not a whole number
C9_Witness ==
    /\ pc = "zp_ret"
    /\ measurements_count > 1
    /\ RefSum(log) % Len(log) # 0
    /\ RefMin(log) < RefMax(log)

\* C10: with the counter advancing between two loop tests, by less than
\* half its range, every call returns, a get_rms_voltage call after at most
\* 2 * loop_count windows.
InCall == InLoop \/ pc = "ms_end" \/ (pc = "zp_ret" /\ caller = "rms")
CallReturned == pc = "returned" \/ (pc = "zp_ret" /\ caller = "main")

====
